---- MODULE Spec2Model ----
(***************************************************************************)
(* A model of the schema-retrieval core of the data-migration assistant:   *)
(*   - VertexAIEmbeddingFunction (scripts/vector_storage.py): the batched  *)
(*     embedding adapter and its single-text form;                         *)
(*   - get_legacy_and_dependent_tables (main.py): the candidate resolver,  *)
(*     followed by the hand-off to SQLScriptGenerator.get_sql_query.       *)
(* Two specifications share the variables: SpecEmbed drives the embedding  *)
(* adapter, SpecResolve drives the resolver and the request hand-off.      *)
(***************************************************************************)
EXTENDS Integers, Sequences, FiniteSets, TLC

VARIABLES
    \* ---- VertexAIEmbeddingFunction.__call__ ----
    docs,            \* the Documents argument
    pc,              \* position inside __call__
    i,               \* the loop variable of range(0, len(docs), batch_size)
    all_embeddings,  \* the accumulator
    provider_log,    \* every get_embeddings request of __call__, with its outcome
    embed_result,    \* <<>> while nothing was returned, <<value>> once returned
    \* ---- VertexAIEmbeddingFunction.embed_query ----
    query_pc,        \* position of the embed_query call
    query,           \* its argument, as <<text>>
    query_log,       \* the requests embed_query handed to the provider
    query_result,    \* <<>> or <<vector>>
    \* ---- get_legacy_and_dependent_tables and its caller ----
    target_schema,       \* the resolver's arguments
    target_tables,
    legacy_tables,
    collection,          \* the entries of the "data_migration" collection
    rpc,                 \* position inside the resolver and its caller
    dependent_tables,    \* local of the resolver (line 46)
    target_schema_query, \* <<>> or <<the text handed to retriever.invoke>>
    search_request,      \* the searches issued to the index, in order
    retrieved_data,      \* the documents retriever.invoke returned
    retrieved_tables,    \* local of the resolver (line 65)
    resolve_result,      \* <<>> or <<the pair the resolver returned>>
    resolve_error,       \* <<>> or <<the exception that left the resolver>>
    request,             \* <<>> or <<the arguments given to get_sql_query>>
    \* ---- the index build: initialize_vector_storage and ChromaDBHandler ----
    bpc,                 \* position inside the build of the current process
    data,                \* the mappings of lines 82-85
    documents,           \* add_to_collection's documents (line 161)
    build_error,         \* <<>> or <<the exception that ended the build>>
    builds,              \* how many builds were started on the persisted store
    collection_before,   \* the collection as the current build found it
    previous_build,      \* <<>> or <<the catalog of the build that succeeded
                         \*           immediately before the current one>>
    store_log,           \* the calls the handler made on the store, with outcome
    handler_query,       \* <<>> or <<how the query_collection call ended>>
    \* ---- the main flow of each session and st.cache_resource ----
    fpc,                 \* position of each session's script run
    requests,            \* how many script runs each session has started
    selected,            \* the file name each session chose in the selectbox
    cache,               \* <<>> or <<the object initialize_vector_storage returned>>
    lock,                \* 0 or the session computing the cached value
    body_runs,           \* how often the body of initialize_vector_storage was entered
    flow_error,          \* per session, <<>> or <<the exception line 211 caught>>
    shown,               \* per session, what st.warning and st.error displayed
    \* ---- get_target_schema_by_filename and its caller ----
    lookup_name,         \* the filename argument
    lookup_result,       \* <<>> or <<what the lookup returned>>
    calls,               \* how many lookups were started
    \* ---- SQLScriptGenerator (sql_script_generator2.py) ----
    message_history,     \* self._message_history
    gpc,                 \* position inside get_sql_query
    gen_prompt,          \* <<>> or <<the prompt of the current call>>
    payload_log,         \* the requests posted to the backend, with outcome
    gen_response,        \* <<>> or <<what _send_payload_to_api returned>>
    gen_returned         \* what the get_sql_query calls returned, in order

embed_vars == <<docs, pc, i, all_embeddings, provider_log, embed_result,
                query_pc, query, query_log, query_result>>

resolve_vars == <<target_schema, target_tables, legacy_tables, collection, rpc,
                  dependent_tables, target_schema_query, search_request,
                  retrieved_data, retrieved_tables, resolve_result,
                  resolve_error, request>>

\* The resolver's variables other than the catalog and the collection.
resolve_rest == <<target_schema, target_tables, rpc, dependent_tables,
                  target_schema_query, search_request, retrieved_data,
                  retrieved_tables, resolve_result, resolve_error, request>>

build_vars == <<bpc, data, documents, build_error, builds, collection_before,
                previous_build, store_log, handler_query>>

flow_vars == <<fpc, requests, selected, cache, lock, body_runs, flow_error,
               shown>>

lookup_vars == <<lookup_name, lookup_result, calls>>

gen_vars == <<message_history, gpc, gen_prompt, payload_log, gen_response,
              gen_returned>>

vars == <<embed_vars, resolve_vars, build_vars, flow_vars, lookup_vars, gen_vars>>

(***************************************************************************)
(* Bounds of the model.                                                    *)
(***************************************************************************)
\* The longest Documents list handed to __call__ (two full batches and more).
MaxDocs == 201

\* Python's min.
Min(a, b) == IF a <= b THEN a ELSE b

(***************************************************************************)
(* The embedding provider (Vertex AI), seen through get_embeddings.        *)
(***************************************************************************)
\* vector_storage.py:56
batch_size == 100

\* The task type __call__ gives every input (vector_storage.py:64).
CallTaskType == "RETRIEVAL_QUERY"

\* The task type embed_query gives its input (vector_storage.py:41).
QueryTaskType == "RETRIEVAL_QUERY"

\* str(document) of a document that is already text.
PyStrOfText(t) == t

\* TextEmbeddingInput(text=..., task_type=...)
TextEmbeddingInput(text, task_type) == [text |-> text, task_type |-> task_type]

\* The vector the provider computes for one input: a value determined by the
\* input's text and task type, and by nothing else.
ProviderVector(input) == <<"vec", input.text, input.task_type>>

\* A successful get_embeddings: one embedding per input, in input order.
get_embeddings(inputs) ==
    [j \in 1..Len(inputs) |-> [values |-> ProviderVector(inputs[j])]]

\* One entry of the provider's request log: what was sent and how it ended.
ProviderCall(inputs, outcome) == [inputs |-> inputs, outcome |-> outcome]

\* docs[i : i + batch_size], Python's 0-based half-open slice.
Slice(s, from, to) == SubSeq(s, from + 1, Min(to, Len(s)))

\* Variant of BatchDocs whose slice runs one document too far.
BatchDocsOverlapping(ds, at) == Slice(ds, at, at + batch_size + 1)

\* batch_docs = docs[i : i + batch_size]
BatchDocs(ds, at) == Slice(ds, at, at + batch_size)

\* Variant of BatchInputs that tags documents as RETRIEVAL_DOCUMENT.
BatchInputsAsDocument(batch_docs) ==
    [j \in 1..Len(batch_docs) |->
        TextEmbeddingInput(PyStrOfText(batch_docs[j]), "RETRIEVAL_DOCUMENT")]

\* inputs = [TextEmbeddingInput(text=str(document), task_type=...) for ...]
BatchInputs(batch_docs) ==
    [j \in 1..Len(batch_docs) |->
        TextEmbeddingInput(PyStrOfText(batch_docs[j]), CallTaskType)]

\* Variant of ExtendWith that puts the newest batch in front.
ExtendWithPrepend(acc, batch_embeddings) ==
    [j \in 1..Len(batch_embeddings) |-> batch_embeddings[j].values] \o acc

\* all_embeddings.extend([embedding.values for embedding in batch_embeddings])
ExtendWith(acc, batch_embeddings) ==
    acc \o [j \in 1..Len(batch_embeddings) |-> batch_embeddings[j].values]

(***************************************************************************)
(* The inputs of the embedding adapter.                                    *)
(***************************************************************************)
\* Documents are texts; a text is named by a number.
DocShapes == {"distinct", "repeating"}

DocsOf(n, shape) ==
    [j \in 1..n |-> IF shape = "distinct" THEN j ELSE j % 2]

\* The texts embed_query is tried on.
QueryTexts == {0, 1, 2}

InitEmbed ==
    /\ \E n \in 0..MaxDocs, shape \in DocShapes : docs = DocsOf(n, shape)
    /\ pc = "start"
    /\ i = 0
    /\ all_embeddings = <<>>
    /\ provider_log = <<>>
    /\ embed_result = <<>>
    /\ query_pc = "start"
    /\ query = <<>>
    /\ query_log = <<>>
    /\ query_result = <<>>

(***************************************************************************)
(* VertexAIEmbeddingFunction.__call__, one action per step.                *)
(***************************************************************************)
\* Lines 55-57: enter the try block, batch_size = 100, all_embeddings = [].
CallEnter ==
    /\ pc = "start"
    /\ pc' = "loop"
    /\ i' = 0
    /\ all_embeddings' = <<>>
    /\ UNCHANGED <<docs, provider_log, embed_result,
                   query_pc, query, query_log, query_result>>

\* Lines 60-70, one iteration whose provider call succeeds.
CallBatchOk ==
    /\ pc = "loop"
    /\ i < Len(docs)
    /\ LET inputs == BatchInputs(BatchDocs(docs, i))
       IN /\ provider_log' = Append(provider_log, ProviderCall(inputs, "ok"))
          /\ all_embeddings' = ExtendWith(all_embeddings, get_embeddings(inputs))
    /\ i' = i + batch_size
    /\ UNCHANGED <<docs, pc, embed_result,
                   query_pc, query, query_log, query_result>>

\* Variant of the except clause that goes round the loop again.
OnProviderErrorRetry ==
    /\ pc' = "loop"
    /\ embed_result' = embed_result

\* Variant of the except clause that returns what was gathered so far.
OnProviderErrorSwallow ==
    /\ pc' = "returned"
    /\ embed_result' = <<all_embeddings>>

\* Lines 74-76: print the error and re-raise it.
OnProviderError ==
    /\ pc' = "raised"
    /\ embed_result' = embed_result

\* Lines 60-67 and 74-76, an iteration whose provider call raises.
CallBatchFail ==
    /\ pc = "loop"
    /\ i < Len(docs)
    /\ provider_log' = Append(provider_log,
                              ProviderCall(BatchInputs(BatchDocs(docs, i)), "error"))
    /\ OnProviderError
    /\ UNCHANGED <<docs, i, all_embeddings,
                   query_pc, query, query_log, query_result>>

\* Line 72: the range is exhausted, return all_embeddings.
CallReturn ==
    /\ pc = "loop"
    /\ i >= Len(docs)
    /\ pc' = "returned"
    /\ embed_result' = <<all_embeddings>>
    /\ UNCHANGED <<docs, i, all_embeddings, provider_log,
                   query_pc, query, query_log, query_result>>

(***************************************************************************)
(* VertexAIEmbeddingFunction.embed_query, called once __call__ has ended.  *)
(***************************************************************************)
\* inputs = [TextEmbeddingInput(text=query, task_type="RETRIEVAL_QUERY")]
QueryInputs(t) == <<TextEmbeddingInput(t, QueryTaskType)>>

\* Lines 41-43 with a successful provider call.
EmbedQueryOk ==
    /\ pc \in {"returned", "raised"}
    /\ query_pc = "start"
    /\ \E t \in QueryTexts :
        /\ query' = <<t>>
        /\ query_log' = Append(query_log, ProviderCall(QueryInputs(t), "ok"))
        /\ query_result' = <<get_embeddings(QueryInputs(t))[1].values>>
    /\ query_pc' = "returned"
    /\ UNCHANGED <<docs, pc, i, all_embeddings, provider_log, embed_result>>

\* Lines 41-42 with a provider call that raises (nothing catches it).
EmbedQueryFail ==
    /\ pc \in {"returned", "raised"}
    /\ query_pc = "start"
    /\ \E t \in QueryTexts :
        /\ query' = <<t>>
        /\ query_log' = Append(query_log, ProviderCall(QueryInputs(t), "error"))
    /\ query_pc' = "raised"
    /\ UNCHANGED <<docs, pc, i, all_embeddings, provider_log, embed_result,
                   query_result>>

(***************************************************************************)
(* Table schemas and catalogs (Legacy_tables.json, Target_tables.json).    *)
(* A schema is a record; "foreign_keys" and "file_name" are optional keys. *)
(* A column is a tuple whose first element is the column name.             *)
(***************************************************************************)
\* The most entries the "data_migration" collection holds.
MaxIndex == 11

\* How far a similarity ranking may be rotated away from the insertion order.
MaxShift == 2

LegacyOrders ==
    [table_name |-> "orders",
     columns |-> <<<<"id", "int">>, <<"cust_id", "int">>, <<"total", "money">>>>]

\* A second catalog entry that carries the name "orders" again.
LegacyOrdersAgain ==
    [table_name |-> "orders", columns |-> <<<<"order_no", "int">>>>]

LegacyCustomers ==
    [table_name |-> "customers",
     columns |-> <<<<"id", "int">>, <<"name", "varchar">>>>]

LegacyItems ==
    [table_name |-> "items", columns |-> <<<<"sku", "varchar">>>>]

LegacyCatalogs ==
    { <<>>,
      <<LegacyOrders, LegacyCustomers>>,
      <<LegacyCustomers, LegacyItems, LegacyOrders>>,
      <<LegacyOrders, LegacyOrdersAgain>>,
      <<LegacyItems>> }

TargetOrder ==
    [table_name |-> "Order",
     columns |-> <<<<"OrderId", "int">>, <<"CustomerId", "int">>>>,
     foreign_keys |-> <<"Customer", "Zed">>,
     file_name |-> "Target.Order.sql"]

\* The same name and column names as TargetOrder; everything else differs.
TargetOrderVariant ==
    [table_name |-> "Order",
     columns |-> <<<<"OrderId", "bigint">>, <<"CustomerId", "uuid">>>>,
     foreign_keys |-> <<"Region", "Customer">>,
     file_name |-> "Target.Order.v2.sql"]

TargetCustomer ==
    [table_name |-> "Customer",
     columns |-> <<<<"Id", "int">>, <<"Name", "varchar">>>>,
     foreign_keys |-> <<"Region">>,
     file_name |-> "Target.Customer.sql"]

\* A schema with no "foreign_keys" key and no "file_name" key.
TargetRegion ==
    [table_name |-> "Region", columns |-> <<<<"Id", "int">>>>]

\* A schema with both keys and an empty column list.
TargetEmpty == [table_name |-> "Empty", columns |-> <<>>]

TargetSchemas ==
    {TargetOrder, TargetOrderVariant, TargetCustomer, TargetRegion, TargetEmpty}

\* Schemas that lack "table_name" or "columns".
TargetNoName ==
    [columns |-> <<<<"OrderId", "int">>>>, foreign_keys |-> <<"Customer">>]

TargetNoColumns == [table_name |-> "Order", foreign_keys |-> <<"Customer">>]

MalformedSchemas == {TargetNoName, TargetNoColumns}

TargetCatalogs ==
    { <<>>,
      <<TargetOrder, TargetCustomer>>,
      <<TargetOrder, TargetCustomer, TargetRegion>>,
      <<TargetRegion, TargetOrderVariant, TargetCustomer>> }

(***************************************************************************)
(* Documents: str() of a single-key dict and eval() of such a text.        *)
(* A text is the sequence of its tokens.                                   *)
(***************************************************************************)
\* [column[0] for column in table["columns"]]
ColumnNames(table) == [j \in 1..Len(table.columns) |-> table.columns[j][1]]

\* str({name: [c1, c2, ...]})
PyStrOfDict(name, cols) == <<"{", name, ":", "[">> \o cols \o <<"]", "}">>

\* eval(text) of such a text: the dict with its one key and its list.
PyEval(text) == [key |-> text[2], value |-> SubSeq(text, 5, Len(text) - 2)]

\* list(item.keys())[0]
FirstKey(item) == item.key

\* Variant of SchemaQuery that also puts the foreign keys into the text.
SchemaQueryWithForeignKeys(schema) ==
    PyStrOfDict(schema.table_name,
                ColumnNames(schema) \o
                (IF "foreign_keys" \in DOMAIN schema
                    THEN schema.foreign_keys ELSE <<>>))

\* Lines 50-52 and the str() of line 60 (and lines 82-85 with
\* vector_storage.py:161 for the catalog): str({table_name: column names}).
SchemaQuery(schema) == PyStrOfDict(schema.table_name, ColumnNames(schema))

(***************************************************************************)
(* The "data_migration" collection and the MMR retriever over it.          *)
(***************************************************************************)
\* The table names index entries may carry: the catalog's and stale ones.
IndexNames ==
    <<"orders", "customers", "items", "t04", "t05", "t06", "t07", "t08",
      "t09", "t10", "t11", "t12", "t13", "t14">>

IndexShapes == {"distinct", "repeating"}

\* The entry add_to_collection writes at position n (vector_storage.py:161-167).
IndexEntry(n, name) ==
    [id |-> n - 1,
     document |-> PyStrOfDict(name, <<"id">>),
     metadata |-> [table |-> name]]

\* A collection of n entries: all names different, or two names alternating
\* (the same table indexed more than once).
CollectionOf(n, shape) ==
    [j \in 1..n |->
        IndexEntry(j, IndexNames[IF shape = "distinct" THEN j ELSE ((j - 1) % 2) + 1])]

\* The similarity rankings tried for n entries: the insertion order rotated
\* by up to MaxShift places, each also reversed.
Rotation(n, r) == [j \in 1..n |-> ((j - 1 + r) % n) + 1]

Reversed(seq) == [j \in 1..Len(seq) |-> seq[Len(seq) + 1 - j]]

Rankings(n) ==
    IF n = 0 THEN {<<>>}
    ELSE UNION { {Rotation(n, r), Reversed(Rotation(n, r))} :
                 r \in 0..Min(MaxShift, n - 1) }

\* The entry at place p leaves its place and goes last (p = 0: none does).
MoveToEnd(seq, p) ==
    IF p = 0 \/ p > Len(seq) THEN seq
    ELSE SubSeq(seq, 1, p - 1) \o SubSeq(seq, p + 1, Len(seq)) \o <<seq[p]>>

\* The MMR search: fetch the fetch_k nearest entries, then select
\* min(k, fetched) of them one by one; the most similar entry comes first,
\* and the entry at place passed_over is penalised as redundant and is taken
\* only after the others.
MMRSelect(ranking, k, fetch_k, passed_over) ==
    LET fetched == SubSeq(ranking, 1, Min(fetch_k, Len(ranking)))
    IN SubSeq(MoveToEnd(fetched, passed_over), 1, Min(k, Len(fetched)))

\* Document(page_content=...) of the selected entries, in selection order.
DocumentsAt(coll, selection) ==
    [j \in 1..Len(selection) |-> [page_content |-> coll[selection[j]].document]]

\* What retriever.invoke may return for a collection (the query decides the
\* ranking through the embedding space).
SearchResults(coll, k, fetch_k) ==
    { DocumentsAt(coll, MMRSelect(ranking, k, fetch_k, passed_over)) :
        ranking \in Rankings(Len(coll)), passed_over \in {0, 2} }

(***************************************************************************)
(* get_legacy_and_dependent_tables (main.py:40-71).                        *)
(***************************************************************************)
\* target_schema.get("foreign_keys", [])
ForeignKeysOf(schema) ==
    IF "foreign_keys" \in DOMAIN schema THEN schema.foreign_keys ELSE <<>>

\* x in list
InList(x, list) == \E j \in 1..Len(list) : list[j] = x

\* The catalog's tables that carry the given name, in catalog order.
RECURSIVE TablesNamed(_, _)
TablesNamed(catalog, table_name) ==
    IF catalog = <<>> THEN <<>>
    ELSE (IF Head(catalog).table_name = table_name THEN <<Head(catalog)>> ELSE <<>>)
         \o TablesNamed(Tail(catalog), table_name)

\* Variant of DependentTables that walks the foreign keys, not the catalog.
RECURSIVE DependentTablesInKeyOrder(_, _)
DependentTablesInKeyOrder(catalog, foreign_keys) ==
    IF foreign_keys = <<>> THEN <<>>
    ELSE TablesNamed(catalog, Head(foreign_keys))
         \o DependentTablesInKeyOrder(catalog, Tail(foreign_keys))

\* Lines 46-48: [table for table in target_tables if table["table_name"] in foreign_keys]
RECURSIVE DependentTables(_, _)
DependentTables(catalog, foreign_keys) ==
    IF catalog = <<>> THEN <<>>
    ELSE (IF InList(Head(catalog).table_name, foreign_keys)
             THEN <<Head(catalog)>> ELSE <<>>)
         \o DependentTables(Tail(catalog), foreign_keys)

\* next(table for table in legacy_tables if table["table_name"] == table_name)
RECURSIVE FirstNamed(_, _)
FirstNamed(catalog, table_name) ==
    IF Head(catalog).table_name = table_name THEN Head(catalog)
    ELSE FirstNamed(Tail(catalog), table_name)

\* any(table["table_name"] == table_name for table in legacy_tables)
AnyNamed(catalog, table_name) ==
    \E j \in 1..Len(catalog) : catalog[j].table_name = table_name

\* Variant of MatchLegacy in which a name missing from the catalog ends the walk.
RECURSIVE MatchLegacyStopAtMissing(_, _)
MatchLegacyStopAtMissing(table_names, catalog) ==
    IF table_names = <<>> THEN <<>>
    ELSE IF AnyNamed(catalog, Head(table_names))
         THEN <<FirstNamed(catalog, Head(table_names))>>
                  \o MatchLegacyStopAtMissing(Tail(table_names), catalog)
         ELSE <<>>

\* Variant of MatchLegacy that makes up a schema for a name the catalog lacks.
RECURSIVE MatchLegacyOrStub(_, _)
MatchLegacyOrStub(table_names, catalog) ==
    IF table_names = <<>> THEN <<>>
    ELSE (IF AnyNamed(catalog, Head(table_names))
             THEN <<FirstNamed(catalog, Head(table_names))>>
             ELSE <<[table_name |-> Head(table_names), columns |-> <<>>]>>)
         \o MatchLegacyOrStub(Tail(table_names), catalog)

\* Lines 65-69.
RECURSIVE MatchLegacy(_, _)
MatchLegacy(table_names, catalog) ==
    IF table_names = <<>> THEN <<>>
    ELSE (IF AnyNamed(catalog, Head(table_names))
             THEN <<FirstNamed(catalog, Head(table_names))>> ELSE <<>>)
         \o MatchLegacy(Tail(table_names), catalog)

\* Lines 61 and 64: eval every document, take the first key of each.
TableNamesOf(retrieved) ==
    [j \in 1..Len(retrieved) |-> FirstKey(PyEval(retrieved[j].page_content))]

\* search_kwargs={"k": 10, "fetch_k": 50} (line 56): the pool size.
fetch_k == 50

\* Variant of k that passes the pool size as the result size.
SwappedK == fetch_k

\* search_kwargs={"k": 10, "fetch_k": 50} (line 56): the result size.
k == 10

\* The exceptions retriever.invoke may raise: the query embedding fails at
\* the provider, or the vector store fails.
SearchFailures == {"GoogleAPICallError", "ChromaError"}

\* An exception no handler catches leaves the function unchanged
\* (the resolver has no try block).
Propagate(failure) == failure

\* Line 51 (and line 83 for a catalog table): schema["table_name"] and
\* schema["columns"] raise KeyError for a missing key.
EncodeOutcome(schema) ==
    IF "table_name" \notin DOMAIN schema \/ "columns" \notin DOMAIN schema
        THEN "KeyError" ELSE "ok"

InitResolve ==
    /\ target_schema \in TargetSchemas \cup MalformedSchemas
    /\ target_tables \in TargetCatalogs
    /\ legacy_tables \in LegacyCatalogs
    /\ \E n \in 0..MaxIndex, shape \in IndexShapes : collection = CollectionOf(n, shape)
    /\ rpc = "start"
    /\ dependent_tables = <<>>
    /\ target_schema_query = <<>>
    /\ search_request = <<>>
    /\ retrieved_data = <<>>
    /\ retrieved_tables = <<>>
    /\ resolve_result = <<>>
    /\ resolve_error = <<>>
    /\ request = <<>>

\* Lines 45-52: the dependent tables and the query mapping.
ResolveDependents ==
    /\ rpc = "start"
    /\ EncodeOutcome(target_schema) = "ok"
    /\ dependent_tables' = DependentTables(target_tables, ForeignKeysOf(target_schema))
    /\ target_schema_query' = <<SchemaQuery(target_schema)>>
    /\ rpc' = "search"
    /\ UNCHANGED <<target_schema, target_tables, legacy_tables, collection, resolve_error,
                   search_request, retrieved_data, retrieved_tables,
                   resolve_result, request>>

\* Lines 45-52 for a schema the subscripts of line 51 fail on: the dependent
\* tables are computed (line 46), then the exception leaves the resolver.
ResolveEncodeFail ==
    /\ rpc = "start"
    /\ EncodeOutcome(target_schema) # "ok"
    /\ dependent_tables' = DependentTables(target_tables, ForeignKeysOf(target_schema))
    /\ resolve_error' = <<EncodeOutcome(target_schema)>>
    /\ rpc' = "raised"
    /\ UNCHANGED <<target_schema, target_tables, legacy_tables, collection,
                   target_schema_query, search_request, retrieved_data,
                   retrieved_tables, resolve_result, request>>

\* The search lines 55-60 issue.
SearchRequest ==
    [search_type |-> "mmr", k |-> k, fetch_k |-> fetch_k,
     query |-> target_schema_query[1]]

\* Lines 55-60 with a search that succeeds.
ResolveSearchOk ==
    /\ rpc = "search"
    /\ search_request' = Append(search_request, SearchRequest)
    /\ retrieved_data' \in SearchResults(collection, SearchRequest.k, SearchRequest.fetch_k)
    /\ rpc' = "match"
    /\ UNCHANGED <<target_schema, target_tables, legacy_tables, collection, resolve_error,
                   dependent_tables, target_schema_query, retrieved_tables,
                   resolve_result, request>>

\* Lines 55-60 with a search that raises: the resolver has no handler, the
\* exception leaves it and reaches the caller's except clause (lines 211-213).
ResolveSearchFail ==
    /\ rpc = "search"
    /\ search_request' = Append(search_request, SearchRequest)
    /\ \E failure \in SearchFailures : resolve_error' = <<Propagate(failure)>>
    /\ rpc' = "raised"
    /\ UNCHANGED <<target_schema, target_tables, legacy_tables, collection,
                   dependent_tables, target_schema_query, retrieved_data,
                   retrieved_tables, resolve_result, request>>

\* Variant of ResolveMatch that takes the first matched table out of the
\* catalog.
ResolveMatchConsuming ==
    /\ rpc = "match"
    /\ retrieved_tables' = MatchLegacy(TableNamesOf(retrieved_data), legacy_tables)
    /\ rpc' = "return"
    /\ legacy_tables' =
          (LET Kept(table) == retrieved_tables' = <<>> \/ table # retrieved_tables'[1]
           IN SelectSeq(legacy_tables, Kept))
    /\ UNCHANGED <<target_schema, target_tables, collection, resolve_error,
                   dependent_tables, target_schema_query, search_request,
                   retrieved_data, resolve_result, request>>

\* Lines 61-69: parse the documents and look the names up in the catalog.
ResolveMatch ==
    /\ rpc = "match"
    /\ retrieved_tables' = MatchLegacy(TableNamesOf(retrieved_data), legacy_tables)
    /\ rpc' = "return"
    /\ UNCHANGED <<target_schema, target_tables, legacy_tables, collection, resolve_error,
                   dependent_tables, target_schema_query, search_request,
                   retrieved_data, resolve_result, request>>

\* Line 71.
ResolveReturn ==
    /\ rpc = "return"
    /\ resolve_result' = <<[retrieved_tables |-> retrieved_tables,
                            dependent_tables |-> dependent_tables]>>
    /\ rpc' = "resolved"
    /\ UNCHANGED <<target_schema, target_tables, legacy_tables, collection, resolve_error,
                   dependent_tables, target_schema_query, search_request,
                   retrieved_data, retrieved_tables, request>>

\* The arguments main.py:170-174 gives to get_sql_query.
GenerationArguments ==
    [legacy_tables |-> legacy_tables,
     target_schema |-> target_schema,
     dependent_tables |-> resolve_result[1].dependent_tables]

\* main.py:169-174: sql_writer.get_sql_query(...) after the resolver returned.
GenerateRequest ==
    /\ rpc = "resolved"
    /\ request' = <<GenerationArguments>>
    /\ rpc' = "requested"
    /\ UNCHANGED <<target_schema, target_tables, legacy_tables, collection, resolve_error,
                   dependent_tables, target_schema_query, search_request,
                   retrieved_data, retrieved_tables, resolve_result>>

\* How many sessions the process serves at the same time.
MaxSessions == 2

\* How many script runs a session starts.
MaxRequests == 2

Sessions == 1..MaxSessions

\* No session has run the script: the flow's variables hold their initial values.
FlowIdle ==
    /\ fpc = [s \in Sessions |-> "idle"]
    /\ requests = [s \in Sessions |-> 0]
    /\ selected = [s \in Sessions |-> ""]
    /\ cache = <<>>
    /\ lock = 0
    /\ body_runs = 0
    /\ flow_error = [s \in Sessions |-> <<>>]
    /\ shown = [s \in Sessions |-> <<>>]

\* No generator exists: its variables hold their initial values.
GenIdle ==
    /\ message_history = <<>>
    /\ gpc = "none"
    /\ gen_prompt = <<>>
    /\ payload_log = <<>>
    /\ gen_response = <<>>
    /\ gen_returned = <<>>

\* No lookup was made: its variables hold their initial values.
LookupIdle ==
    /\ lookup_name = ""
    /\ lookup_result = <<>>
    /\ calls = 0

\* No build is running: its variables hold their initial values.
BuildIdle ==
    /\ bpc = "idle"
    /\ data = <<>>
    /\ documents = <<>>
    /\ build_error = <<>>
    /\ builds = 0
    /\ collection_before = <<>>
    /\ previous_build = <<>>
    /\ store_log = <<>>
    /\ handler_query = <<>>

\* The embedding adapter is not running: its variables hold their initial values.
EmbedIdle ==
    /\ docs = <<>>
    /\ pc = "idle"
    /\ i = 0
    /\ all_embeddings = <<>>
    /\ provider_log = <<>>
    /\ embed_result = <<>>
    /\ query_pc = "idle"
    /\ query = <<>>
    /\ query_log = <<>>
    /\ query_result = <<>>

NextResolve ==
    \/ ResolveDependents /\ UNCHANGED <<embed_vars, build_vars, flow_vars, lookup_vars, gen_vars>>
    \/ ResolveEncodeFail /\ UNCHANGED <<embed_vars, build_vars, flow_vars, lookup_vars, gen_vars>>
    \/ ResolveSearchOk /\ UNCHANGED <<embed_vars, build_vars, flow_vars, lookup_vars, gen_vars>>
    \/ ResolveSearchFail /\ UNCHANGED <<embed_vars, build_vars, flow_vars, lookup_vars, gen_vars>>
    \/ ResolveMatch /\ UNCHANGED <<embed_vars, build_vars, flow_vars, lookup_vars, gen_vars>>
    \/ ResolveReturn /\ UNCHANGED <<embed_vars, build_vars, flow_vars, lookup_vars, gen_vars>>
    \/ GenerateRequest /\ UNCHANGED <<embed_vars, build_vars, flow_vars, lookup_vars, gen_vars>>

InitResolveSpec == InitResolve /\ EmbedIdle /\ BuildIdle /\ FlowIdle /\ LookupIdle /\ GenIdle

SpecResolve == InitResolveSpec /\ [][NextResolve]_vars

(***************************************************************************)
(* Properties of the resolver and the hand-off, checked under SpecResolve. *)
(***************************************************************************)
\* The resolver has returned.
Resolved == rpc \in {"resolved", "requested"}

\* The table names of a sequence of schemas.
NamesOf(tables) == [j \in 1..Len(tables) |-> tables[j].table_name]

\* The elements of a sequence.
Range(seq) == {seq[j] : j \in 1..Len(seq)}

\* The names the index search returned, in rank order.
ReturnedNames == TableNamesOf(retrieved_data)

\* C1: the dependent_targets the resolver returns are exactly the tables of
\* target_catalog whose table_name is among target_schema.foreign_keys, in
\* catalog order; foreign keys naming no catalog table contribute nothing,
\* and the resolver passes that step without an error.
C1_DependentTargets ==
    Resolved =>
        LET keys == IF "foreign_keys" \in DOMAIN target_schema
                       THEN Range(target_schema.foreign_keys) ELSE {}
            Referenced(table) == table.table_name \in keys
        IN resolve_result[1].dependent_tables = SelectSeq(target_tables, Referenced)

\* A resolution with two foreign keys, the first of which ("Region") names no
\* table of the catalog: the one table the other key names is returned.
C1_Witness ==
    /\ Resolved
    /\ target_schema = TargetOrderVariant
    /\ target_tables = <<TargetOrder, TargetCustomer>>
    /\ resolve_result[1].dependent_tables = <<TargetCustomer>>

\* C2: legacy_matches holds only schemas of legacy_catalog whose table_name
\* was returned by the search; their names are the returned names that the
\* catalog knows, in rank order; a returned name the catalog does not know
\* is dropped and the resolver still returns.
C2_LegacyMatches ==
    Resolved =>
        LET matches == resolve_result[1].retrieved_tables
            Known(name) == name \in Range(NamesOf(legacy_tables))
        IN /\ \A j \in 1..Len(matches) :
                /\ matches[j] \in Range(legacy_tables)
                /\ matches[j].table_name \in Range(ReturnedNames)
           /\ NamesOf(matches) = SelectSeq(ReturnedNames, Known)

\* The search returned a name the catalog does not know ahead of one it knows.
C2_Witness ==
    /\ Resolved
    /\ \E a, b \in 1..Len(ReturnedNames) :
        /\ a < b
        /\ ReturnedNames[a] \notin Range(NamesOf(legacy_tables))
        /\ ReturnedNames[b] \in Range(NamesOf(legacy_tables))
    /\ resolve_result[1].retrieved_tables # <<>>

\* C3: in every result of the resolver the table names of legacy_matches are
\* pairwise distinct (a name returned twice by the search appears once).
C3_LegacyMatchesDistinct ==
    Resolved =>
        LET matches == resolve_result[1].retrieved_tables
        IN \A a, b \in 1..Len(matches) :
            matches[a].table_name = matches[b].table_name => a = b

\* C4: the request given to the generator carries the resolver's
\* legacy_matches as legacy_tables, the unmodified target schema and the
\* resolver's dependent_targets.
C4_RequestCarriesMatches ==
    rpc = "requested" =>
        /\ request[1].legacy_tables = resolve_result[1].retrieved_tables
        /\ request[1].target_schema = target_schema
        /\ request[1].dependent_tables = resolve_result[1].dependent_tables

\* C5: the search returns at most 10 documents and legacy_matches has at
\* most 10 entries.
C5_AtMostK ==
    /\ Len(retrieved_data) <= 10
    /\ Len(retrieved_tables) <= 10
    /\ Resolved => Len(resolve_result[1].retrieved_tables) <= 10

\* The index holds more than 10 entries and the resolver returned 10 matches.
C5_Witness ==
    /\ Resolved
    /\ Len(collection) > 10
    /\ Len(retrieved_data) = 10
    /\ Len(resolve_result[1].retrieved_tables) = 10

\* C6: every search is issued in MMR mode with k = 10 and fetch_k = 50, and
\* its query text is the one every schema with the same table_name and the
\* same column-name sequence yields, whatever its foreign keys, file name
\* and other column attributes.
C6_QueryFromNameAndColumns ==
    search_request # <<>> =>
        /\ search_request[1].search_type = "mmr"
        /\ search_request[1].k = 10
        /\ search_request[1].fetch_k = 50
        /\ search_request[1].query =
              PyStrOfDict(target_schema.table_name, ColumnNames(target_schema))
        /\ \A other \in TargetSchemas :
              (/\ other.table_name = target_schema.table_name
               /\ ColumnNames(other) = ColumnNames(target_schema))
              => SchemaQuery(other) = search_request[1].query

\* A search was issued for a schema that has a twin with other foreign keys,
\* another file name and other column types.
C6_Witness ==
    /\ search_request # <<>>
    /\ target_schema = TargetOrder
    /\ \E other \in TargetSchemas :
        /\ other # target_schema
        /\ other.table_name = target_schema.table_name
        /\ ColumnNames(other) = ColumnNames(target_schema)
        /\ other.foreign_keys # target_schema.foreign_keys
        /\ other.file_name # target_schema.file_name

\* The schema lacks a key the encoding reads.
MissingKey(schema) ==
    "table_name" \notin DOMAIN schema \/ "columns" \notin DOMAIN schema

\* The resolver ended by raising before it issued a search.
EncodeFailed == rpc = "raised" /\ search_request = <<>>

\* The resolver ended by raising at the search.
SearchFailed == rpc = "raised" /\ search_request # <<>>

\* C12: encoding a schema fails only when table_name or columns is missing,
\* and then it signals SchemaFormatError; a schema with both keys is encoded
\* without error.
C12_EncodeFailsAsSchemaFormatError ==
    /\ EncodeFailed => (MissingKey(target_schema) /\ resolve_error = <<"SchemaFormatError">>)
    /\ (rpc # "start" /\ ~MissingKey(target_schema)) => ~EncodeFailed

\* C17: when the index search fails, the resolver fails with RetrievalError
\* and returns nothing: no legacy match, complete or partial.
C17_SearchFailureIsRetrievalError ==
    SearchFailed =>
        /\ resolve_error = <<"RetrievalError">>
        /\ resolve_result = <<>>
        /\ retrieved_tables = <<>>

\* C18: with an empty legacy_catalog the resolver returns no legacy match,
\* whatever the search returned; with an empty target_catalog it returns no
\* dependent target, whatever the foreign keys; and an empty catalog is never
\* the cause of an error: the resolver raises only for a schema that lacks a
\* key or for a failed search.
C18_EmptyCatalogs ==
    /\ (Resolved /\ legacy_tables = <<>>) => resolve_result[1].retrieved_tables = <<>>
    /\ (Resolved /\ target_tables = <<>>) => resolve_result[1].dependent_tables = <<>>
    /\ rpc = "raised" =>
          \/ EncodeFailed /\ MissingKey(target_schema)
          \/ SearchFailed /\ resolve_error[1] \in SearchFailures

\* Both catalogs are empty, the search returned documents and the schema
\* names foreign keys: the resolver returned two empty sequences.
C18_Witness ==
    /\ Resolved
    /\ legacy_tables = <<>>
    /\ target_tables = <<>>
    /\ retrieved_data # <<>>
    /\ ForeignKeysOf(target_schema) # <<>>
    /\ resolve_result[1] = [retrieved_tables |-> <<>>, dependent_tables |-> <<>>]

\* The resolver is not running: its variables hold their initial values.
ResolveIdle ==
    /\ target_schema = [table_name |-> "Order", columns |-> <<>>]
    /\ target_tables = <<>>
    /\ legacy_tables = <<>>
    /\ collection = <<>>
    /\ rpc = "idle"
    /\ dependent_tables = <<>>
    /\ target_schema_query = <<>>
    /\ search_request = <<>>
    /\ retrieved_data = <<>>
    /\ retrieved_tables = <<>>
    /\ resolve_result = <<>>
    /\ resolve_error = <<>>
    /\ request = <<>>

NextEmbed ==
    \/ CallEnter /\ UNCHANGED <<resolve_vars, build_vars, flow_vars, lookup_vars, gen_vars>>
    \/ CallBatchOk /\ UNCHANGED <<resolve_vars, build_vars, flow_vars, lookup_vars, gen_vars>>
    \/ CallBatchFail /\ UNCHANGED <<resolve_vars, build_vars, flow_vars, lookup_vars, gen_vars>>
    \/ CallReturn /\ UNCHANGED <<resolve_vars, build_vars, flow_vars, lookup_vars, gen_vars>>
    \/ EmbedQueryOk /\ UNCHANGED <<resolve_vars, build_vars, flow_vars, lookup_vars, gen_vars>>
    \/ EmbedQueryFail /\ UNCHANGED <<resolve_vars, build_vars, flow_vars, lookup_vars, gen_vars>>

InitEmbedSpec == InitEmbed /\ ResolveIdle /\ BuildIdle /\ FlowIdle /\ LookupIdle /\ GenIdle

SpecEmbed == InitEmbedSpec /\ [][NextEmbed]_vars

(***************************************************************************)
(* Properties of the embedding adapter, checked under SpecEmbed.           *)
(***************************************************************************)
TaskTypes == {"RETRIEVAL_QUERY", "RETRIEVAL_DOCUMENT"}

\* v is the vector the provider computes for text t (under some task type).
VectorIsOf(v, t) ==
    \E tt \in TaskTypes : v = ProviderVector(TextEmbeddingInput(t, tt))

\* The texts of one logged request, in the order they were sent.
TextsOf(call) == [j \in 1..Len(call.inputs) |-> call.inputs[j].text]

\* C7: a successful embed call returns exactly one vector per document, and
\* the vector at position j is the provider's vector for docs[j], wherever
\* the batch boundaries fall.
C7_OrderAndLengthPreserved ==
    pc = "returned" =>
        /\ Len(embed_result) = 1
        /\ Len(embed_result[1]) = Len(docs)
        /\ \A j \in 1..Len(docs) : VectorIsOf(embed_result[1][j], docs[j])

\* A call on more than two batches of pairwise different documents returned.
C7_Witness ==
    /\ pc = "returned"
    /\ Len(docs) > 2 * 100
    /\ docs[1] # docs[101]
    /\ Len(embed_result[1]) = Len(docs)

\* C8: every provider request of an embed call carries between 1 and 100
\* documents; request r carries exactly documents 100(r-1)+1 .. min(100r, n)
\* in order (consecutive disjoint slices); a call that returns has made
\* exactly ceil(n/100) requests, none when n = 0.
C8_BatchesPartitionInput ==
    /\ \A r \in 1..Len(provider_log) :
          /\ Len(provider_log[r].inputs) \in 1..100
          /\ TextsOf(provider_log[r]) =
                SubSeq(docs, 100 * (r - 1) + 1, Min(100 * r, Len(docs)))
    /\ pc = "returned" =>
          /\ Len(provider_log) = (Len(docs) + 99) \div 100
          /\ Len(docs) = 0 => provider_log = <<>>

\* A call on 201 or more documents returned after three provider requests.
C8_Witness ==
    /\ pc = "returned"
    /\ Len(docs) > 200
    /\ Len(provider_log) = 3
    /\ Len(provider_log[3].inputs) < 100

\* C9: when the provider call of some batch fails, the embed call ends by
\* raising, nothing is returned (the vectors of earlier batches included),
\* and the failed request is the last one sent.
C9_BatchFailureFailsCall ==
    \A r \in 1..Len(provider_log) :
        provider_log[r].outcome = "error" =>
            /\ pc = "raised"
            /\ embed_result = <<>>
            /\ r = Len(provider_log)

\* The third batch failed after two batches had succeeded.
C9_Witness ==
    /\ pc = "raised"
    /\ Len(provider_log) = 3
    /\ provider_log[3].outcome = "error"
    /\ Len(all_embeddings) = 200
    /\ embed_result = <<>>

\* C10: embed_query(t) and __call__([t]) each send one provider request
\* holding exactly t with the same task type, and embed_query returns the
\* first (and only) vector of what __call__ returns.
C10_EmbedQueryAgreesWithCall ==
    (pc = "returned" /\ query_pc = "returned" /\ docs = query) =>
        /\ Len(embed_result[1]) = 1
        /\ query_result[1] = embed_result[1][1]
        /\ Len(provider_log) = 1
        /\ Len(query_log) = 1
        /\ provider_log[1].inputs = query_log[1].inputs
        /\ TextsOf(query_log[1]) = query

\* Both forms were called on the same single text and both returned.
C10_Witness ==
    /\ pc = "returned"
    /\ query_pc = "returned"
    /\ Len(docs) = 1
    /\ docs = query
    /\ query_result # <<>>

(***************************************************************************)
(* The index build: the body of initialize_vector_storage (main.py:77-101) *)
(* with ChromaDBHandler.get_or_create_collection and add_to_collection,    *)
(* run by successive processes on the persisted "vector_database" store.   *)
(***************************************************************************)
\* How many processes build on the same persisted store.
MaxBuilds == 3

\* The same name and column names as LegacyOrders, other column types.
LegacyOrdersRetyped ==
    [table_name |-> "orders",
     columns |-> <<<<"id", "bigint">>, <<"cust_id", "uuid">>, <<"total", "float">>>>]

\* The catalogs Legacy_tables.json may hold when a process starts; the main
\* flow builds only for a non-empty catalog (main.py:115).
BuildCatalogs ==
    (LegacyCatalogs \ {<<>>}) \cup {<<LegacyOrdersRetyped, LegacyCustomers>>}

\* Variant of FormatForEmbedding that keeps whole columns, not their names.
FormatForEmbeddingWholeColumns(table) ==
    [key |-> table.table_name,
     value |-> [j \in 1..(2 * Len(table.columns)) |->
                   table.columns[(j + 1) \div 2][2 - (j % 2)]]]

\* Line 83: {table["table_name"]: [column[0] for column in table["columns"]]}
FormatForEmbedding(table) ==
    [key |-> table.table_name, value |-> ColumnNames(table)]

\* vector_storage.py:161: str(table) of such a mapping.
DocumentOf(mapping) == PyStrOfDict(mapping.key, mapping.value)

\* Variant of EntryId that numbers new entries after the existing ones.
EntryIdAfterExisting(position) == Len(collection) + position - 1

\* vector_storage.py:166: ids = list(map(str, range(len(tables)))).
EntryId(position) == position - 1

\* Variant of NewEntries that takes the metadata from the mappings in
\* reverse order.
NewEntriesMetadataReversed(mappings, texts) ==
    [j \in 1..Len(mappings) |->
        [id |-> EntryId(j),
         document |-> texts[j],
         metadata |-> [table |-> FirstKey(mappings[Len(mappings) + 1 - j])]]]

\* vector_storage.py:162-167: the entries handed to collection.add.
NewEntries(mappings, texts) ==
    [j \in 1..Len(mappings) |->
        [id |-> EntryId(j),
         document |-> texts[j],
         metadata |-> [table |-> FirstKey(mappings[j])]]]

\* collection.add on the store: an entry whose id the collection already
\* holds is left as it is, the others are appended.
CollectionAdd(coll, entries) ==
    LET IsNew(entry) == \A j \in 1..Len(coll) : coll[j].id # entry.id
    IN coll \o SelectSeq(entries, IsNew)

\* A call of the handler on the Chroma client or collection, as logged.
StoreCall(op, outcome) == [op |-> op, outcome |-> outcome]

\* The failures of the vector store.
StoreFailures == {"ChromaError"}

\* The failures of the embedding provider.
ProviderFailures == {"GoogleAPICallError"}

\* The resolver is not running (the catalog and the collection belong to the build).
ResolveRestIdle ==
    /\ target_schema = [table_name |-> "Order", columns |-> <<>>]
    /\ target_tables = <<>>
    /\ rpc = "idle"
    /\ dependent_tables = <<>>
    /\ target_schema_query = <<>>
    /\ search_request = <<>>
    /\ retrieved_data = <<>>
    /\ retrieved_tables = <<>>
    /\ resolve_result = <<>>
    /\ resolve_error = <<>>
    /\ request = <<>>

\* The first process starts on a store that holds no collection yet.
InitBuild ==
    /\ legacy_tables \in BuildCatalogs
    /\ collection = <<>>
    /\ bpc = "start"
    /\ data = <<>>
    /\ documents = <<>>
    /\ build_error = <<>>
    /\ builds = 1
    /\ collection_before = <<>>
    /\ previous_build = <<>>
    /\ store_log = <<>>
    /\ handler_query = <<>>

\* main.py:77-85: load the catalog and format it for embedding.
BuildFormat ==
    /\ bpc = "start"
    /\ data' = [j \in 1..Len(legacy_tables) |-> FormatForEmbedding(legacy_tables[j])]
    /\ bpc' = "collection"
    /\ UNCHANGED <<legacy_tables, collection, documents, build_error, builds,
                   collection_before, previous_build, store_log, handler_query>>
    /\ UNCHANGED <<embed_vars, resolve_rest, flow_vars, lookup_vars, gen_vars>>

\* main.py:97-98, vector_storage.py:95-104: the collection is opened, or
\* created empty when the store has none; its entries are kept.
BuildGetCollectionOk ==
    /\ bpc = "collection"
    /\ store_log' = Append(store_log, StoreCall("get_or_create_collection", "ok"))
    /\ bpc' = "add"
    /\ UNCHANGED <<legacy_tables, collection, data, documents, build_error,
                   builds, collection_before, previous_build, handler_query>>
    /\ UNCHANGED <<embed_vars, resolve_rest, flow_vars, lookup_vars, gen_vars>>

\* vector_storage.py:95-107 when the store raises: printed and re-raised.
BuildGetCollectionFail ==
    /\ bpc = "collection"
    /\ \E failure \in StoreFailures : build_error' = <<failure>>
    /\ store_log' = Append(store_log, StoreCall("get_or_create_collection", "error"))
    /\ bpc' = "raised"
    /\ UNCHANGED <<legacy_tables, collection, data, documents, builds,
                   collection_before, previous_build, handler_query>>
    /\ UNCHANGED <<embed_vars, resolve_rest, flow_vars, lookup_vars, gen_vars>>

\* Variant of BuildAddEmbed that writes the entries to the collection
\* before their embeddings are computed.
BuildAddEmbedWritingFirst ==
    /\ bpc = "add"
    /\ documents' = [j \in 1..Len(data) |-> DocumentOf(data[j])]
    /\ docs' = documents'
    /\ pc' = "start"
    /\ i' = 0
    /\ all_embeddings' = <<>>
    /\ provider_log' = <<>>
    /\ embed_result' = <<>>
    /\ bpc' = "embedding"
    /\ UNCHANGED <<query_pc, query, query_log, query_result>>
    /\ collection' = CollectionAdd(collection, NewEntries(data, documents'))
    /\ UNCHANGED <<legacy_tables, data, build_error, builds,
                   collection_before, previous_build, store_log, handler_query>>
    /\ UNCHANGED <<resolve_rest, flow_vars, lookup_vars, gen_vars>>

\* vector_storage.py:161-164: documents = list(map(str, tables)), then the
\* embedding function is called on them.
BuildAddEmbed ==
    /\ bpc = "add"
    /\ documents' = [j \in 1..Len(data) |-> DocumentOf(data[j])]
    /\ docs' = documents'
    /\ pc' = "start"
    /\ i' = 0
    /\ all_embeddings' = <<>>
    /\ provider_log' = <<>>
    /\ embed_result' = <<>>
    /\ bpc' = "embedding"
    /\ UNCHANGED <<query_pc, query, query_log, query_result>>
    /\ UNCHANGED <<legacy_tables, collection, data, build_error, builds,
                   collection_before, previous_build, store_log, handler_query>>
    /\ UNCHANGED <<resolve_rest, flow_vars, lookup_vars, gen_vars>>

\* The steps of VertexAIEmbeddingFunction.__call__ inside add_to_collection.
BuildEmbedStep ==
    /\ bpc = "embedding"
    /\ (CallEnter \/ CallBatchOk \/ CallBatchFail \/ CallReturn)
    /\ UNCHANGED <<resolve_vars, build_vars, flow_vars, lookup_vars, gen_vars>>

\* vector_storage.py:168-170 when the embedding function raised.
BuildAddEmbedFailed ==
    /\ bpc = "embedding"
    /\ pc = "raised"
    /\ \E failure \in ProviderFailures : build_error' = <<failure>>
    /\ bpc' = "raised"
    /\ UNCHANGED <<legacy_tables, collection, data, documents, builds,
                   collection_before, previous_build, store_log, handler_query>>
    /\ UNCHANGED <<embed_vars, resolve_rest, flow_vars, lookup_vars, gen_vars>>

\* vector_storage.py:162-167: collection.add with the embeddings returned.
BuildAddStoreOk ==
    /\ bpc = "embedding"
    /\ pc = "returned"
    /\ collection' = CollectionAdd(collection, NewEntries(data, documents))
    /\ store_log' = Append(store_log, StoreCall("add", "ok"))
    /\ bpc' = "added"
    /\ UNCHANGED <<legacy_tables, data, documents, build_error, builds,
                   collection_before, previous_build, handler_query>>
    /\ UNCHANGED <<embed_vars, resolve_rest, flow_vars, lookup_vars, gen_vars>>

\* vector_storage.py:162-170 when collection.add raises: nothing is written.
BuildAddStoreFail ==
    /\ bpc = "embedding"
    /\ pc = "returned"
    /\ \E failure \in StoreFailures : build_error' = <<failure>>
    /\ store_log' = Append(store_log, StoreCall("add", "error"))
    /\ bpc' = "raised"
    /\ UNCHANGED <<legacy_tables, collection, data, documents, builds,
                   collection_before, previous_build, handler_query>>
    /\ UNCHANGED <<embed_vars, resolve_rest, flow_vars, lookup_vars, gen_vars>>

\* main.py:101: return chromadb_handler.load_vector_storage().
BuildLoad ==
    /\ bpc = "added"
    /\ bpc' = "done"
    /\ UNCHANGED <<legacy_tables, collection, data, documents, build_error,
                   builds, collection_before, previous_build, store_log, handler_query>>
    /\ UNCHANGED <<embed_vars, resolve_rest, flow_vars, lookup_vars, gen_vars>>

\* The process ends and another one starts on the same persisted store,
\* with the catalog file as it is then.
BuildRestart ==
    /\ bpc \in {"done", "raised"}
    /\ builds < MaxBuilds
    /\ legacy_tables' \in BuildCatalogs
    /\ previous_build' = IF bpc = "done" THEN <<legacy_tables>> ELSE <<>>
    /\ collection_before' = collection
    /\ builds' = builds + 1
    /\ bpc' = "start"
    /\ data' = <<>>
    /\ documents' = <<>>
    /\ build_error' = <<>>
    /\ store_log' = <<>>
    /\ handler_query' = <<>>
    /\ docs' = <<>>
    /\ pc' = "idle"
    /\ i' = 0
    /\ all_embeddings' = <<>>
    /\ provider_log' = <<>>
    /\ embed_result' = <<>>
    /\ UNCHANGED <<query_pc, query, query_log, query_result>>
    /\ UNCHANGED <<collection, resolve_rest, flow_vars, lookup_vars, gen_vars>>

\* vector_storage.py:109: the default of n_results.
n_results == 3

\* document.split(", ") of a document text: the separator stands between the
\* column names of the list and nowhere else.
SplitOnCommaSpace(document) ==
    LET columns == Len(document) - 6
    IN IF columns <= 1 THEN <<document>>
       ELSE [j \in 1..columns |->
                IF j = 1 THEN SubSeq(document, 1, 5)
                ELSE IF j = columns
                     THEN SubSeq(document, Len(document) - 2, Len(document))
                     ELSE <<document[4 + j]>>]

\* vector_storage.py:127-133: the dictionary of scores, keyed by table name
\* (a later hit with the same name overwrites the earlier one); the score of
\* a hit is named by its place in the result.
ScoresOf(names) ==
    [name \in Range(names) |->
        CHOOSE j \in 1..Len(names) :
            names[j] = name /\ \A l \in (j + 1)..Len(names) : names[l] # name]

\* vector_storage.py:122-134: what query_collection returns for the n
\* nearest entries of a ranking.
QueryCollectionValue(coll, ranking, n) ==
    LET hits == [j \in 1..Min(n, Len(ranking)) |-> coll[ranking[j]]]
    IN [retrieved_data |->
            [j \in 1..Len(hits) |->
                [table |-> hits[j].metadata.table,
                 columns |-> SplitOnCommaSpace(hits[j].document)]],
        scores |-> ScoresOf([j \in 1..Len(hits) |-> hits[j].metadata.table])]

\* Variant of the except clause that returns an empty result.
OnQueryErrorSwallow(failure) ==
    handler_query' =
        <<[outcome |-> "returned", value |-> [retrieved_data |-> <<>>, scores |-> <<>>]]>>

\* vector_storage.py:135-137: print the error and re-raise it.
OnQueryError(failure) ==
    handler_query' = <<[outcome |-> "raised", value |-> failure]>>

\* vector_storage.py:109-134: query_collection on the built collection.
BuildQueryOk ==
    /\ bpc = "done"
    /\ handler_query = <<>>
    /\ \E ranking \in Rankings(Len(collection)) :
          handler_query' =
              <<[outcome |-> "returned",
                 value |-> QueryCollectionValue(collection, ranking, n_results)]>>
    /\ store_log' = Append(store_log, StoreCall("query", "ok"))
    /\ UNCHANGED <<legacy_tables, collection, bpc, data, documents, build_error,
                   builds, collection_before, previous_build>>
    /\ UNCHANGED <<embed_vars, resolve_rest, flow_vars, lookup_vars, gen_vars>>

\* vector_storage.py:121-124 and 135-137 when collection.query raises.
BuildQueryFail ==
    /\ bpc = "done"
    /\ handler_query = <<>>
    /\ \E failure \in StoreFailures : OnQueryError(failure)
    /\ store_log' = Append(store_log, StoreCall("query", "error"))
    /\ UNCHANGED <<legacy_tables, collection, bpc, data, documents, build_error,
                   builds, collection_before, previous_build>>
    /\ UNCHANGED <<embed_vars, resolve_rest, flow_vars, lookup_vars, gen_vars>>

NextBuild ==
    \/ BuildFormat
    \/ BuildGetCollectionOk
    \/ BuildGetCollectionFail
    \/ BuildAddEmbed
    \/ BuildEmbedStep
    \/ BuildAddEmbedFailed
    \/ BuildAddStoreOk
    \/ BuildAddStoreFail
    \/ BuildLoad
    \/ BuildQueryOk
    \/ BuildQueryFail
    \/ BuildRestart

InitBuildSpec == InitBuild /\ EmbedIdle /\ ResolveRestIdle /\ FlowIdle /\ LookupIdle /\ GenIdle

SpecBuild == InitBuildSpec /\ [][NextBuild]_vars

(***************************************************************************)
(* Properties of the index build, checked under SpecBuild.                 *)
(***************************************************************************)
\* The schemas an encoding may be compared with.
SchemaUniverse ==
    TargetSchemas \cup
    UNION {{catalog[j] : j \in 1..Len(catalog)} : catalog \in BuildCatalogs}

\* The build has computed the documents it indexes.
Encoded == bpc \in {"embedding", "added", "done"}

\* C11: the document text of a catalog table is determined by its table_name
\* and the ordered first elements of its columns: it is the text the resolver
\* uses as query for a schema with that name and those column names, whatever
\* the other column attributes are, and it reads back as exactly that name
\* with those column names in the given order.
C11_EncodingFromNameAndColumnNames ==
    Encoded =>
        /\ Len(documents) = Len(legacy_tables)
        /\ \A j \in 1..Len(legacy_tables) :
              /\ documents[j] = SchemaQuery(legacy_tables[j])
              /\ PyEval(documents[j]) =
                    [key |-> legacy_tables[j].table_name,
                     value |-> ColumnNames(legacy_tables[j])]
              /\ \A u \in SchemaUniverse :
                    (/\ u.table_name = legacy_tables[j].table_name
                     /\ ColumnNames(u) = ColumnNames(legacy_tables[j]))
                    => /\ documents[j] = SchemaQuery(u)
                       /\ documents[j] = DocumentOf(FormatForEmbedding(u))

\* C11 witness: an index built from the retyped "orders" table holds the
\* document the original "orders" table is queried with.
C11_Witness ==
    /\ bpc = "done"
    /\ builds = 1
    /\ legacy_tables[1] = LegacyOrdersRetyped
    /\ LegacyOrdersRetyped # LegacyOrders
    /\ collection[1].document = SchemaQuery(LegacyOrders)

\* C13: after a successful build the collection holds exactly one entry per
\* catalog table, ids 0..n-1, with the table's document and name, and
\* nothing from an earlier build.
C13_BuildReplacesCollection ==
    bpc = "done" =>
        collection =
            [j \in 1..Len(legacy_tables) |->
                [id |-> j - 1,
                 document |-> SchemaQuery(legacy_tables[j]),
                 metadata |-> [table |-> legacy_tables[j].table_name]]]

InitCalls == InitEmbedSpec \/ InitResolveSpec \/ InitBuildSpec

NextCalls == NextEmbed \/ NextResolve \/ NextBuild

SpecCalls == InitCalls /\ [][NextCalls]_vars

\* C19: within one invocation every remote call is attempted at most once:
\* the r-th provider request of an embed call (on its own or inside a build)
\* is for the r-th batch and no other, there are never more requests than
\* batches, a failed request is the last one and ends the call, embed_query
\* sends one request, and the resolver issues one search whose failure ends
\* the resolution.
C19_EachRemoteCallOnce ==
    /\ Len(provider_log) <= (Len(docs) + batch_size - 1) \div batch_size
    /\ \A r \in 1..Len(provider_log) :
          /\ TextsOf(provider_log[r]) = BatchDocs(docs, batch_size * (r - 1))
          /\ r < Len(provider_log) => provider_log[r].outcome = "ok"
          /\ provider_log[r].outcome = "error" => pc = "raised"
    /\ (bpc # "idle" /\ pc = "raised") => bpc \in {"embedding", "raised"}
    /\ Len(query_log) <= 1
    /\ (query_log # <<>> /\ query_log[1].outcome = "error") => query_pc = "raised"
    /\ Len(search_request) <= 1
    /\ (rpc = "raised" /\ search_request # <<>>) => retrieved_data = <<>>

\* C19 witness: the second batch failed after the first had succeeded, and
\* the call ended with those two requests.
C19_Witness ==
    /\ pc = "raised"
    /\ Len(provider_log) = 2
    /\ provider_log[1].outcome = "ok"
    /\ provider_log[2].outcome = "error"
    /\ provider_log[1].inputs # provider_log[2].inputs

(***************************************************************************)
(* The main flow (main.py:111-213) run by concurrent sessions of one       *)
(* process, up to the call of initialize_vector_storage, which             *)
(* st.cache_resource wraps: a cached value is returned at once, otherwise  *)
(* the body runs under the cache's lock and its return value is cached; an *)
(* exception leaves the body, releases the lock and caches nothing.        *)
(***************************************************************************)
\* main.py:91-95: the keywords of the call VertexAIEmbeddingFunction(...).
CallKeywords == {"model_name", "credentials", "project_id"}

\* vector_storage.py:14-20: the parameters of __init__ besides self.
CtorParameters == {"model_name", "credentials_path", "project_id", "location"}

\* vector_storage.py:14-20: the parameters without a default.
CtorRequired == {"model_name", "credentials_path", "project_id"}

\* Python binds the call's keywords to the parameters or raises TypeError.
ConstructorOutcome ==
    IF CallKeywords \subseteq CtorParameters /\ CtorRequired \subseteq CallKeywords
        THEN "bound"
        ELSE "TypeError"

\* main.py:119-122: the file names offered for selection.
AllSqlFiles(tables) ==
    LET HasFileName(table) == "file_name" \in DOMAIN table
        named == SelectSeq(tables, HasFileName)
    IN [j \in 1..Len(named) |-> named[j].file_name]

\* main.py:113, 18-29: the catalogs load_json_data returns to every session.
InitFlow ==
    /\ legacy_tables \in LegacyCatalogs
    /\ target_tables \in TargetCatalogs
    /\ fpc = [s \in Sessions |-> "idle"]
    /\ requests = [s \in Sessions |-> 0]
    /\ selected = [s \in Sessions |-> ""]
    /\ cache = <<>>
    /\ lock = 0
    /\ body_runs = 0
    /\ flow_error = [s \in Sessions |-> <<>>]
    /\ shown = [s \in Sessions |-> <<>>]

\* What a step of the flow leaves alone.
flow_frame ==
    <<embed_vars, resolve_vars, bpc, documents, build_error, builds,
      collection_before, previous_build, store_log, handler_query, lookup_vars, gen_vars>>

\* main.py:113-116: a script run with an empty catalog only shows the warning.
FlowWarn(s) ==
    /\ fpc[s] \in {"idle", "warned"}
    /\ requests[s] < MaxRequests
    /\ (legacy_tables = <<>> \/ target_tables = <<>>)
    /\ fpc' = [fpc EXCEPT ![s] = "warned"]
    /\ requests' = [requests EXCEPT ![s] = @ + 1]
    /\ shown' = [shown EXCEPT ![s] = <<"warning">>]
    /\ UNCHANGED <<selected, cache, lock, body_runs, flow_error, data, flow_frame>>

\* main.py:113-146: a script run in which a file is selected and the button
\* was pressed.
FlowClick(s) ==
    /\ fpc[s] \in {"idle", "reported"}
    /\ requests[s] < MaxRequests
    /\ legacy_tables # <<>>
    /\ target_tables # <<>>
    /\ \E j \in 1..Len(AllSqlFiles(target_tables)) :
          selected' = [selected EXCEPT ![s] = AllSqlFiles(target_tables)[j]]
    /\ fpc' = [fpc EXCEPT ![s] = "init"]
    /\ requests' = [requests EXCEPT ![s] = @ + 1]
    /\ flow_error' = [flow_error EXCEPT ![s] = <<>>]
    /\ shown' = [shown EXCEPT ![s] = <<>>]
    /\ UNCHANGED <<cache, lock, body_runs, data, flow_frame>>

\* main.py:147 and 74: the cached function is called; a cached value is
\* returned, otherwise the caller goes for the lock.
FlowInitialize(s) ==
    /\ fpc[s] = "init"
    /\ fpc' = [fpc EXCEPT ![s] = IF cache # <<>> THEN "lookup" ELSE "waiting"]
    /\ UNCHANGED <<requests, selected, cache, lock, body_runs, flow_error,
                   shown, data, flow_frame>>

\* main.py:74: under the lock the cache is read again; on a miss the body
\* of initialize_vector_storage is entered.
FlowAcquire(s) ==
    /\ fpc[s] = "waiting"
    /\ lock = 0
    /\ IF cache # <<>>
          THEN /\ fpc' = [fpc EXCEPT ![s] = "lookup"]
               /\ UNCHANGED <<lock, body_runs>>
          ELSE /\ fpc' = [fpc EXCEPT ![s] = "body"]
               /\ lock' = s
               /\ body_runs' = body_runs + 1
    /\ UNCHANGED <<requests, selected, cache, flow_error, shown, data, flow_frame>>

\* main.py:77-87: the catalog is formatted and the credentials are read.
FlowBodyFormat(s) ==
    /\ fpc[s] = "body"
    /\ data' = [j \in 1..Len(legacy_tables) |-> FormatForEmbedding(legacy_tables[j])]
    /\ fpc' = [fpc EXCEPT ![s] = "construct"]
    /\ UNCHANGED <<requests, selected, cache, lock, body_runs, flow_error,
                   shown, flow_frame>>

\* main.py:91-95: the embedding function is constructed; a TypeError leaves
\* the body (there is no handler in it), the lock is released and nothing
\* is cached.
FlowConstruct(s) ==
    /\ fpc[s] = "construct"
    /\ IF ConstructorOutcome = "bound"
          THEN /\ fpc' = [fpc EXCEPT ![s] = "handler"]
               /\ UNCHANGED <<lock, flow_error>>
          ELSE /\ fpc' = [fpc EXCEPT ![s] = "raised"]
               /\ lock' = 0
               /\ flow_error' = [flow_error EXCEPT ![s] = <<ConstructorOutcome>>]
    /\ UNCHANGED <<requests, selected, cache, body_runs, shown, data, flow_frame>>

\* Variant of the except clause that shows nothing.
FlowExceptSilent(s) ==
    /\ fpc[s] = "raised"
    /\ fpc' = [fpc EXCEPT ![s] = "reported"]
    /\ UNCHANGED <<requests, selected, cache, lock, body_runs, flow_error,
                   shown, data, flow_frame>>

\* main.py:211-213: the exception is caught and shown; the script run ends.
FlowExcept(s) ==
    /\ fpc[s] = "raised"
    /\ fpc' = [fpc EXCEPT ![s] = "reported"]
    /\ shown' = [shown EXCEPT ![s] = <<"error", flow_error[s][1]>>]
    /\ UNCHANGED <<requests, selected, cache, lock, body_runs, flow_error,
                   data, flow_frame>>

NextFlow ==
    \E s \in Sessions :
        \/ FlowWarn(s)
        \/ FlowClick(s)
        \/ FlowInitialize(s)
        \/ FlowAcquire(s)
        \/ FlowBodyFormat(s)
        \/ FlowConstruct(s)
        \/ FlowExcept(s)

\* The catalogs are loaded; no resolution, embed call or build has started.
InitFlowSpec ==
    /\ InitFlow
    /\ EmbedIdle
    /\ BuildIdle
    /\ LookupIdle
    /\ GenIdle
    /\ target_schema = [table_name |-> "Order", columns |-> <<>>]
    /\ collection = <<>>
    /\ rpc = "idle"
    /\ dependent_tables = <<>>
    /\ target_schema_query = <<>>
    /\ search_request = <<>>
    /\ retrieved_data = <<>>
    /\ retrieved_tables = <<>>
    /\ resolve_result = <<>>
    /\ resolve_error = <<>>
    /\ request = <<>>

SpecFlow == InitFlowSpec /\ [][NextFlow]_vars

\* A session's call of initialize_vector_storage has ended.
InitializeEnded(s) == fpc[s] \in {"lookup", "handler", "raised", "reported"}

\* C15: with collaborators that do not fail, the body of
\* initialize_vector_storage runs in at most one session at a time and at
\* most once in the process, and every session whose call has ended holds
\* the one cached vector storage: the first caller built it, the others
\* waited for it or found it cached.
C15_SingleFlightBuild ==
    /\ Cardinality({s \in Sessions : fpc[s] \in {"body", "construct"}}) <= 1
    /\ body_runs <= 1
    /\ \A s \in Sessions :
          InitializeEnded(s) => (cache # <<>> /\ flow_error[s] = <<>>)

(***************************************************************************)
(* Further properties of the resolver, checked under SpecResolve.          *)
(***************************************************************************)
\* The tables of a catalog a schema's foreign keys name, in catalog order.
ReferencedTargets(schema, catalog) ==
    LET keys == IF "foreign_keys" \in DOMAIN schema
                   THEN Range(schema.foreign_keys) ELSE {}
        Referenced(table) == table.table_name \in keys
    IN SelectSeq(catalog, Referenced)

\* C21: the dependent targets are a function of target_schema.foreign_keys
\* and target_catalog alone, whatever the index holds, the legacy catalog is
\* and the search does; when the search fails the caller still has them.
C21_DependentHalfIndependent ==
    /\ rpc # "start" =>
          dependent_tables = ReferencedTargets(target_schema, target_tables)
    /\ Resolved =>
          resolve_result[1].dependent_tables =
              ReferencedTargets(target_schema, target_tables)
    /\ SearchFailed =>
          /\ resolve_result # <<>>
          /\ resolve_result[1].dependent_tables =
                ReferencedTargets(target_schema, target_tables)

(***************************************************************************)
(* Properties of the main flow, checked under SpecFlow (no collaborator    *)
(* fails in it).                                                           *)
(***************************************************************************)
\* C22: with non-empty catalogs and collaborators that succeed, a request
\* for a selected table completes the chain: whenever its script run has
\* ended, the index was initialized and the generation request was sent.
C22_RequestCompletesChain ==
    \A s \in Sessions :
        (fpc[s] = "reported" /\ selected[s] # "")
            => (cache # <<>> /\ request # <<>> /\ shown[s] = <<>>)

ProviderFailed == \E r \in 1..Len(provider_log) : provider_log[r].outcome = "error"

\* A logged call of the given kind on the store failed.
StoreFailed(op) ==
    \E c \in 1..Len(store_log) : store_log[c] = StoreCall(op, "error")

\* C23: no failure of a collaborator is swallowed: when the provider call
\* fails the embed call raises and so does add_to_collection; when creating
\* the collection or adding to it fails, the operation raises and the build
\* does not go on; when the collection query fails, query_collection raises
\* and returns no value.
C23_NoFailureSwallowed ==
    /\ ProviderFailed =>
          /\ pc = "raised"
          /\ embed_result = <<>>
          /\ bpc \in {"embedding", "raised"}
          /\ bpc = "raised" => build_error # <<>>
    /\ (StoreFailed("get_or_create_collection") \/ StoreFailed("add")) =>
          /\ bpc = "raised"
          /\ build_error # <<>>
          /\ store_log[Len(store_log)].outcome = "error"
    /\ StoreFailed("query") =>
          /\ handler_query # <<>>
          /\ handler_query[1].outcome = "raised"
          /\ handler_query[1].value \in StoreFailures

\* C23 witness: a build succeeded and the query on its collection failed.
C23_Witness ==
    /\ bpc = "done"
    /\ StoreFailed("query")
    /\ handler_query = <<[outcome |-> "raised", value |-> "ChromaError"]>>
    /\ Len(collection) = 3

\* C27: the document of every entry the build wrote is the string form of a
\* mapping with one key, and that key is the entry's metadata.table: the
\* name the resolver reads from the document is the name in the metadata.
C27_DocumentKeyIsMetadataTable ==
    \A j \in 1..Len(collection) :
        LET entry == collection[j]
            parsed == PyEval(entry.document)
        IN /\ entry.document = PyStrOfDict(parsed.key, parsed.value)
           /\ FirstKey(parsed) = entry.metadata.table
           /\ TableNamesOf(<<[page_content |-> entry.document]>>)
                 = <<entry.metadata.table>>

\* C27 witness: a finished build of three different tables.
C27_Witness ==
    /\ bpc = "done"
    /\ builds = 1
    /\ Len(collection) = 3
    /\ collection[1].metadata.table # collection[3].metadata.table
    /\ PyEval(collection[3].document).key = "orders"

\* C28: when embedding the documents fails inside add_to_collection, the
\* collection is as the call found it, collection.add was not issued and the
\* provider's error is re-raised; collection.add is issued only after the
\* embed call has returned a vector for every document.
C28_EmbedFailureWritesNothing ==
    /\ (bpc # "idle" /\ ProviderFailed) =>
          /\ collection = collection_before
          /\ \A c \in 1..Len(store_log) : store_log[c].op # "add"
          /\ bpc = "raised" => build_error[1] \in ProviderFailures
    /\ (\E c \in 1..Len(store_log) : store_log[c].op = "add") =>
          /\ pc = "returned"
          /\ Len(embed_result[1]) = Len(documents)

\* C28 witness: on a store an earlier build filled, the build of another
\* catalog failed at the provider and left the collection as it was.
C28_Witness ==
    /\ bpc = "raised"
    /\ ProviderFailed
    /\ previous_build # <<>>
    /\ previous_build[1] # legacy_tables
    /\ Len(legacy_tables) > Len(collection)
    /\ collection # <<>>
    /\ collection = collection_before

(***************************************************************************)
(* get_target_schema_by_filename (main.py:104-108) and the resolution that *)
(* follows it (main.py:150-156), called again and again on the same        *)
(* catalogs and index.                                                     *)
(***************************************************************************)
\* How many lookups are made one after the other.
MaxCalls == 2

\* Python's None.
PyNone == [py |-> "None"]

\* A second table that carries the file name of TargetOrder.
TargetOrderShadow ==
    [table_name |-> "OrderArchive",
     columns |-> <<<<"OrderId", "int">>>>,
     foreign_keys |-> <<"Order">>,
     file_name |-> "Target.Order.sql"]

\* The target catalogs of the lookup: those of the resolver and two in which
\* a file name occurs twice.
LookupCatalogs ==
    TargetCatalogs \cup
    { <<TargetRegion, TargetOrder, TargetOrderShadow>>,
      <<TargetOrderShadow, TargetCustomer, TargetOrder>> }

\* The file names a caller may ask for: the ones offered for selection
\* (main.py:119-122) and one no table has.
LookupNames(tables) == Range(AllSqlFiles(tables)) \cup {"Target.Missing.sql"}

\* table.get("file_name") == filename
FileNameIs(table, filename) ==
    "file_name" \in DOMAIN table /\ table.file_name = filename

\* Variant of the lookup that keeps walking and returns the last match.
RECURSIVE get_target_schema_last_match(_, _)
get_target_schema_last_match(tables, filename) ==
    IF tables = <<>> THEN PyNone
    ELSE IF FileNameIs(tables[Len(tables)], filename) THEN tables[Len(tables)]
         ELSE get_target_schema_last_match(SubSeq(tables, 1, Len(tables) - 1),
                                           filename)

\* Lines 104-108: the first table whose file_name is the given one, or None.
RECURSIVE get_target_schema_by_filename(_, _)
get_target_schema_by_filename(tables, filename) ==
    IF tables = <<>> THEN PyNone
    ELSE IF FileNameIs(Head(tables), filename) THEN Head(tables)
         ELSE get_target_schema_by_filename(Tail(tables), filename)

\* The catalogs, the index and the file name of the first lookup.
InitLookup ==
    /\ target_tables \in LookupCatalogs
    /\ legacy_tables \in LegacyCatalogs
    /\ \E n \in {0, 3, MaxIndex} : collection = CollectionOf(n, "distinct")
    /\ lookup_name \in LookupNames(target_tables)
    /\ lookup_result = <<>>
    /\ calls = 1
    /\ target_schema = PyNone
    /\ rpc = "lookup"
    /\ dependent_tables = <<>>
    /\ target_schema_query = <<>>
    /\ search_request = <<>>
    /\ retrieved_data = <<>>
    /\ retrieved_tables = <<>>
    /\ resolve_result = <<>>
    /\ resolve_error = <<>>
    /\ request = <<>>

\* main.py:150-152: the lookup, and the test of its result.
LookupFound ==
    /\ rpc = "lookup"
    /\ get_target_schema_by_filename(target_tables, lookup_name) # PyNone
    /\ lookup_result' = <<get_target_schema_by_filename(target_tables, lookup_name)>>
    /\ target_schema' = lookup_result'[1]
    /\ rpc' = "start"
    /\ UNCHANGED <<target_tables, legacy_tables, collection, dependent_tables,
                   target_schema_query, search_request, retrieved_data,
                   retrieved_tables, resolve_result, resolve_error, request,
                   lookup_name, calls>>
    /\ UNCHANGED <<embed_vars, build_vars, flow_vars, gen_vars>>

\* main.py:150-152 and 209-210: the lookup returns None, the error is shown.
LookupNone ==
    /\ rpc = "lookup"
    /\ get_target_schema_by_filename(target_tables, lookup_name) = PyNone
    /\ lookup_result' = <<PyNone>>
    /\ target_schema' = PyNone
    /\ rpc' = "not_found"
    /\ UNCHANGED <<target_tables, legacy_tables, collection, dependent_tables,
                   target_schema_query, search_request, retrieved_data,
                   retrieved_tables, resolve_result, resolve_error, request,
                   lookup_name, calls>>
    /\ UNCHANGED <<embed_vars, build_vars, flow_vars, gen_vars>>

\* The next request: another file name, the locals of the resolver fresh.
LookupAgain ==
    /\ rpc \in {"resolved", "raised", "not_found"}
    /\ calls < MaxCalls
    /\ calls' = calls + 1
    /\ lookup_name' \in LookupNames(target_tables)
    /\ lookup_result' = <<>>
    /\ rpc' = "lookup"
    /\ dependent_tables' = <<>>
    /\ target_schema_query' = <<>>
    /\ search_request' = <<>>
    /\ retrieved_data' = <<>>
    /\ retrieved_tables' = <<>>
    /\ resolve_result' = <<>>
    /\ resolve_error' = <<>>
    /\ UNCHANGED <<target_schema, target_tables, legacy_tables, collection, request>>
    /\ UNCHANGED <<embed_vars, build_vars, flow_vars, gen_vars>>

NextLookup ==
    \/ LookupFound
    \/ LookupNone
    \/ LookupAgain
    \/ ResolveDependents /\ UNCHANGED <<embed_vars, build_vars, flow_vars, lookup_vars, gen_vars>>
    \/ ResolveSearchOk /\ UNCHANGED <<embed_vars, build_vars, flow_vars, lookup_vars, gen_vars>>
    \/ ResolveSearchFail /\ UNCHANGED <<embed_vars, build_vars, flow_vars, lookup_vars, gen_vars>>
    \/ ResolveMatch /\ UNCHANGED <<embed_vars, build_vars, flow_vars, lookup_vars, gen_vars>>
    \/ ResolveReturn /\ UNCHANGED <<embed_vars, build_vars, flow_vars, lookup_vars, gen_vars>>

InitLookupSpec == InitLookup /\ EmbedIdle /\ BuildIdle /\ FlowIdle /\ GenIdle

SpecLookup == InitLookupSpec /\ [][NextLookup]_vars

\* Lookups and resolutions on one side, index builds on the other, each
\* started on its own.
InitIndexUse == InitLookupSpec \/ InitBuildSpec

NextIndexUse == NextLookup \/ NextBuild

SpecIndexUse == InitIndexUse /\ [][NextIndexUse]_vars

\* The positions inside get_legacy_and_dependent_tables.
InResolver == rpc \in {"start", "search", "match", "return"}

\* C24: no step of a lookup or of a resolution changes the legacy catalog,
\* the target catalog or the index content, and no step of the resolver
\* changes the target schema; the index content changes only in the
\* collection.add of a build.
C24_ResolutionReadOnly ==
    [][/\ rpc # "idle" =>
             /\ legacy_tables' = legacy_tables
             /\ target_tables' = target_tables
             /\ collection' = collection
       /\ InResolver => target_schema' = target_schema
       /\ collection' # collection => (bpc = "embedding" /\ bpc' = "added")]_vars

\* C24 witness: the second of two requests on the same catalogs and index
\* has returned matches.
C24_Witness ==
    /\ calls = 2
    /\ rpc = "resolved"
    /\ collection # <<>>
    /\ resolve_result[1].retrieved_tables # <<>>
    /\ resolve_result[1].dependent_tables # <<>>

\* C25: the lookup returns the first table, in catalog order, whose
\* file_name is the given name, and None when there is none; every file
\* name offered for selection is found, in a schema that carries it.
C25_LookupFirstMatch ==
    /\ lookup_result # <<>> =>
          LET matching == {j \in 1..Len(target_tables) :
                              /\ "file_name" \in DOMAIN target_tables[j]
                              /\ target_tables[j].file_name = lookup_name}
          IN IF matching = {}
                THEN lookup_result[1] = PyNone
                ELSE \E j \in matching :
                        /\ \A l \in matching : j <= l
                        /\ lookup_result[1] = target_tables[j]
    /\ rpc # "idle" =>
          \A j \in 1..Len(AllSqlFiles(target_tables)) :
              LET found == get_target_schema_by_filename(
                               target_tables, AllSqlFiles(target_tables)[j])
              IN /\ found # PyNone
                 /\ found.file_name = AllSqlFiles(target_tables)[j]
                 /\ \E l \in 1..Len(target_tables) : target_tables[l] = found

\* C25 witness: two tables carry the file name asked for; the lookup
\* returned the one that comes first in the catalog.
C25_Witness ==
    /\ target_tables = <<TargetRegion, TargetOrder, TargetOrderShadow>>
    /\ lookup_name = "Target.Order.sql"
    /\ lookup_result = <<TargetOrder>>
    /\ rpc = "resolved"

(***************************************************************************)
(* SQLScriptGenerator (sql_script_generator2.py): one instance and the     *)
(* get_sql_query calls made on it, one after the other.                    *)
(***************************************************************************)
\* How many get_sql_query calls the instance receives.
MaxQueries == 3

\* The arguments of a call.
GenArguments ==
    { [legacy_tables |-> <<LegacyOrders, LegacyCustomers>>,
       target_schema |-> TargetOrder,
       dependent_tables |-> <<TargetCustomer>>],
      [legacy_tables |-> <<LegacyItems>>,
       target_schema |-> TargetRegion,
       dependent_tables |-> <<>>] }

\* A Python string as a value that may also be None.
PyStr(text) == [py |-> "str", text |-> text]

\* The answers a 200 response may carry.
Answers == {PyStr("SELECT 1"), PyStr("SELECT 2")}

\* How a request may fail: a status other than 200, or an exception inside
\* the try block (requests.post, response.json, the "Answer" key).
RequestFailures == {"non-200", "exception"}

\* Line 411: the prompt, made of the target schema and the dependent tables.
PromptOf(args) ==
    [target_schema |-> args.target_schema,
     dependent_tables |-> args.dependent_tables]

\* Lines 95-393 and 418: the system prompt, made of the legacy tables.
SystemPromptOf(args) == [legacy_tables |-> args.legacy_tables]

\* A history entry.
Message(role, content) == [role |-> role, content |-> content]

\* Variant of HistoryWithPrompt that starts the history over.
HistoryRestartedWithPrompt(history, prompt) == <<Message("user", prompt)>>

\* Lines 412-417: self._message_history.append({"role": "user", ...}).
HistoryWithPrompt(history, prompt) == Append(history, Message("user", prompt))

\* Lines 15-75: the fields of the payload that depend on the call.
Payload(prompt, system, history, outcome) ==
    [question |-> prompt, prompt |-> system, chatHistory |-> history,
     outcome |-> outcome]

\* Line 11: a new instance.
InitGenerate ==
    /\ message_history = <<>>
    /\ gpc = "idle"
    /\ gen_prompt = <<>>
    /\ payload_log = <<>>
    /\ gen_response = <<>>
    /\ gen_returned = <<>>

gen_frame == <<embed_vars, resolve_vars, build_vars, flow_vars, lookup_vars>>

\* Lines 411-418: the prompt is built and appended to the history.
GenCall ==
    /\ gpc = "idle"
    /\ Len(gen_returned) < MaxQueries
    /\ \E args \in GenArguments :
          /\ gen_prompt' = <<PromptOf(args), SystemPromptOf(args)>>
          /\ message_history' = HistoryWithPrompt(message_history, PromptOf(args))
    /\ gen_response' = <<>>
    /\ gpc' = "send"
    /\ UNCHANGED <<payload_log, gen_returned, gen_frame>>

\* Lines 13-85: the request is posted and answered with status 200.
GenSendOk ==
    /\ gpc = "send"
    /\ payload_log' = Append(payload_log,
                             Payload(gen_prompt[1], gen_prompt[2],
                                     message_history, "200"))
    /\ \E answer \in Answers : gen_response' = <<answer>>
    /\ gpc' = "received"
    /\ UNCHANGED <<message_history, gen_prompt, gen_returned, gen_frame>>

\* Variant of OnRequestFailure that lets the error leave the method.
OnRequestFailureRaise ==
    /\ gen_response' = gen_response
    /\ gpc' = "raised"

\* Lines 86-93: the error is printed and None is returned.
OnRequestFailure ==
    /\ gen_response' = <<PyNone>>
    /\ gpc' = "received"

\* Lines 13-93 when the status is not 200 or the try block raises.
GenSendFail ==
    /\ gpc = "send"
    /\ \E failure \in RequestFailures :
          payload_log' = Append(payload_log,
                                Payload(gen_prompt[1], gen_prompt[2],
                                        message_history, failure))
    /\ OnRequestFailure
    /\ UNCHANGED <<message_history, gen_prompt, gen_returned, gen_frame>>

\* Lines 420-429: the assistant entry is appended and the response returned.
GenReturn ==
    /\ gpc = "received"
    /\ message_history' = Append(message_history,
                                 Message("assistant", gen_response[1]))
    /\ gen_returned' = Append(gen_returned, gen_response[1])
    /\ gpc' = "idle"
    /\ UNCHANGED <<gen_prompt, payload_log, gen_response, gen_frame>>

NextGenerate == GenCall \/ GenSendOk \/ GenSendFail \/ GenReturn

InitGenerateSpec ==
    InitGenerate /\ EmbedIdle /\ ResolveIdle /\ BuildIdle /\ FlowIdle /\ LookupIdle

SpecGenerate == InitGenerateSpec /\ [][NextGenerate]_vars

\* C29: after n calls the history has 2n entries, user and assistant in
\* turn; the chatHistory of the c-th request is the history up to and
\* including the c-th prompt, which is its question; the entry after it is
\* the assistant entry with what the call returned; the history sent earlier
\* is still the beginning of the history (nothing was changed or removed).
C29_HistoryAlternates ==
    /\ gpc = "idle" => Len(message_history) = 2 * Len(gen_returned)
    /\ \A j \in 1..Len(message_history) :
          message_history[j].role = IF j % 2 = 1 THEN "user" ELSE "assistant"
    /\ \A c \in 1..Len(payload_log) :
          /\ 2 * c - 1 <= Len(message_history)
          /\ Len(payload_log[c].chatHistory) = 2 * c - 1
          /\ payload_log[c].chatHistory = SubSeq(message_history, 1, 2 * c - 1)
          /\ message_history[2 * c - 1] = Message("user", payload_log[c].question)
    /\ \A c \in 1..Len(gen_returned) :
          /\ 2 * c <= Len(message_history)
          /\ message_history[2 * c] = Message("assistant", gen_returned[c])
    /\ Len(payload_log) \in {Len(gen_returned), Len(gen_returned) + 1}

\* C29 witness: three calls have returned, the second of them without an
\* answer.
C29_Witness ==
    /\ gpc = "idle"
    /\ Len(gen_returned) = 3
    /\ Len(message_history) = 6
    /\ gen_returned[1] = PyStr("SELECT 2")
    /\ gen_returned[2] = PyNone
    /\ gen_returned[3] # PyNone
    /\ message_history[1].content # message_history[3].content

====
